---------------------------- MODULE Spec2Model ----------------------------
(***************************************************************************)
(* A model of the physics world of cannon.js, src/world/World.js: the body *)
(* registry (add, remove, addConstraint, removeConstraint), the material   *)
(* pair table (addMaterial, addContactMaterial, getContactMaterial), the   *)
(* double-buffered collision matrix (collisionMatrixTick) and the step     *)
(* pipeline (step).                                                        *)
(*                                                                         *)
(* Conventions.                                                            *)
(*  - JavaScript arrays are 0-based, TLA+ sequences are 1-based: the       *)
(*    element a[i] of the code is a[i+1] here.  Indices, ids and table     *)
(*    addresses keep the code's 0-based values.                            *)
(*  - Vectors are modelled by one component (the y axis), as integers.     *)
(*  - Time is counted in units of 1/120 s, so default_dt = 1/60 s is 2.    *)
(*  - Friction coefficients are counted in tenths (0.3 is 3).              *)
(*  - A quaternion is modelled by angle, the rotation about the y axis it  *)
(*    stands for (quat += dt/2 * w*quat turns it by angularVelocity * dt), *)
(*    and by quatDrift, the number of integration updates applied to it    *)
(*    since it was last normalized (0: unit length).                       *)
(*  - Arithmetic is exact: the rounding of the code's floating point       *)
(*    numbers is not modelled.                                             *)
(*  - The variables world and matrix are one World instance; other holds   *)
(*    a second instance of the same program, which shares the bodies'      *)
(*    heap and the module-level pools of World.js.                         *)
(***************************************************************************)
EXTENDS Integers, Sequences, FiniteSets, TLC

(***************************************************************************)
(* Bounds of the model.                                                    *)
(***************************************************************************)
\* number of Body objects the caller owns
NumBodies == 3
\* cap on world.nextId in the registry specification (add has no upper limit)
MaxIds == 4
\* number of Constraint objects the caller owns
NumConstraints == 1
\* number of Material objects the caller owns
NumMaterials == 4
\* cap on the number of addContactMaterial calls
MaxContactMaterials == 2
\* cap on world.stepnumber
MaxSteps == 4
\* cap on the number of contacts the contact generator returns in one step
MaxContacts == 2
\* largest quatNormalizeSkip the caller sets
MaxSkip == 2

Body == 1..NumBodies
Constraint == 1..NumConstraints
Material == 1..NumMaterials

\* JavaScript's undefined and null, where they are compared with strings
Undefined == "undefined"
Null == "null"
\* what reading mats2cmat outside the array or at a hole gives (undefined),
\* as an integer that is no contact material id and not the sentinel -1
UndefinedId == -2
\* an argument that is not an instance of Material (undefined)
NotAMaterial == 0
\* what reading contactmaterials outside the array gives (undefined)
NoContactMaterial ==
    [materials |-> <<NotAMaterial, NotAMaterial>>, friction |-> 0,
     restitution |-> 0, id |-> UndefinedId]
\* the one World instance of the model, as the value of body.world
ThisWorld == "world"
\* a second World instance
OtherWorld == "other"

\* Body.STATIC, Body.DYNAMIC, Body.KINEMATIC are bit flags (objects/Body.js)
DYNAMIC == 1
STATIC == 2
KINEMATIC == 4

\* this.default_dt = 1/60, in units of 1/120 s
default_dt == 2
\* friction of the defaultContactMaterial, 0.3, in tenths
DefaultFriction == 3

VARIABLES
    world,      \* the fields of the World instance
    body,       \* Body -> the fields of each Body object
    constraint, \* Constraint -> the fields of each Constraint object
    material,   \* Material -> the fields of each Material object
    matrix,     \* the two ArrayCollisionMatrix objects, by identity 1, 2
    feq,        \* the FrictionEquation objects allocated so far, by identity
    pool,       \* World_step_frictionEquationPool (module level)
    oldContacts, \* World_step_oldContacts (module level)
    other,      \* a second World instance: its fields and its two matrices
    events,     \* the events dispatched by the last call, in order
    call        \* the last call made on the world: operation, arguments,
                \* and the values it computed that the caller can observe

vars == <<world, body, constraint, material, matrix, feq, pool, oldContacts,
          other, events, call>>

(***************************************************************************)
(* Helpers for JavaScript arrays.                                          *)
(***************************************************************************)
Range(s) == {s[i] : i \in 1..Len(s)}

\* a.splice(idx, 1) for idx >= 0: removes the element at idx if there is one
Splice1(s, idx) ==
    IF idx + 1 \in 1..Len(s)
    THEN [i \in 1..(Len(s) - 1) |-> IF i < idx + 1 THEN s[i] ELSE s[i + 1]]
    ELSE s

\* a.indexOf(x): the first index of x, -1 if absent
IndexOf(s, x) ==
    IF x \in Range(s)
    THEN (CHOOSE i \in 1..Len(s) : s[i] = x /\ \A j \in 1..(i - 1) : s[j] # x) - 1
    ELSE -1

\* n copies of v
Fill(n, v) == [i \in 1..n |-> v]

Abs(x) == IF x < 0 THEN -x ELSE x

(***************************************************************************)
(* The program state as one record, so that the methods are operators      *)
(* from state to state and a method can call another.                      *)
(***************************************************************************)
State ==
    [world |-> world, body |-> body, constraint |-> constraint,
     material |-> material, matrix |-> matrix, feq |-> feq, pool |-> pool,
     oldContacts |-> oldContacts, other |-> other,
     events |-> <<>>,
     \* local variables of step that the model reports in call
     dt |-> 0, g |-> <<>>, solved |-> <<>>, taken |-> <<>>, offered |-> <<>>,
     \* the calls the method made out of World.js, in order
     log |-> <<>>]

\* the variables after the call are those of the state r the method returns
CommitState(r) ==
    /\ world' = r.world
    /\ body' = r.body
    /\ constraint' = r.constraint
    /\ material' = r.material
    /\ matrix' = r.matrix
    /\ feq' = r.feq
    /\ pool' = r.pool
    /\ oldContacts' = r.oldContacts
    /\ other' = r.other
    /\ events' = r.events

Commit(s) == \E r \in {s} : CommitState(r)

\* A call out of World.js, to a collaborator, a listener or a callable of
\* a body: the callee, its argument and the program state the callee finds
Log(s, callee, arg) ==
    [s EXCEPT !.log = Append(@, [callee |-> callee, arg |-> arg,
                                 seen |-> [world |-> s.world, body |-> s.body,
                                           matrix |-> s.matrix]])]

\* EventTarget.dispatchEvent, as far as the model observes it: the event is
\* recorded in the order of dispatch
DispatchEvent(s, ev) ==
    Log([s EXCEPT !.events = Append(@, ev)], "dispatchEvent", ev)

(***************************************************************************)
(* ArrayCollisionMatrix: a symmetric boolean relation over pairs of body   *)
(* ids with a capacity.  Its code is not part of World.js.                 *)
(***************************************************************************)
NewCollisionMatrix == [numObjects |-> 0, pairs |-> {}]

PairKey(s, bi, bj) == {s.body[bi].id, s.body[bj].id}

MatrixGet(s, m, bi, bj) == PairKey(s, bi, bj) \in s.matrix[m].pairs

MatrixSet(s, m, bi, bj, value) ==
    [s EXCEPT !.matrix[m].pairs =
        IF value THEN @ \cup {PairKey(s, bi, bj)} ELSE @ \ {PairKey(s, bi, bj)}]

MatrixReset(s, m) == [s EXCEPT !.matrix[m].pairs = {}]

MatrixSetNumObjects(s, m, n) == [s EXCEPT !.matrix[m].numObjects = n]

(***************************************************************************)
(* The World constructor.                                                  *)
(***************************************************************************)
NewWorld ==
    [this |-> ThisWorld,   \* the identity of the instance
     allowSleep |-> FALSE,
     contacts |-> <<>>,
     frictionEquations |-> <<>>,
     quatNormalizeSkip |-> 0,
     time |-> 0,
     stepnumber |-> 0,
     last_dt |-> default_dt,
     nextId |-> 0,
     gravity |-> 0,
     bodies |-> <<>>,
     solver |-> <<>>,
     constraints |-> <<>>,
     collisionMatrix |-> 1,
     collisionMatrixPrevious |-> 2,
     materials |-> <<>>,
     contactmaterials |-> <<>>,
     mats2cmat |-> <<>>,
     defaultContactMaterial |->
        [materials |-> <<NotAMaterial, NotAMaterial>>, friction |-> DefaultFriction,
         restitution |-> 0, id |-> -1],
     addBodyEvent |-> [type |-> "addBody", body |-> Null],
     removeBodyEvent |-> [type |-> "removeBody", body |-> Null],
     subsystems |-> <<>>]

\* A Body as its constructor leaves it; rotational tells a RigidBody (which
\* has angularVelocity, quaternion and tau) from a Particle.
NewBody(motionstate, rotational) ==
    [id |-> -1, index |-> -1, world |-> Null,
     motionstate |-> motionstate,
     rotational |-> rotational,
     mass |-> IF motionstate = DYNAMIC THEN 1 ELSE 0,
     invMass |-> IF motionstate = DYNAMIC THEN 1 ELSE 0,
     invInertia |-> IF motionstate = DYNAMIC THEN 1 ELSE 0,
     sleeping |-> FALSE,
     collisionResponse |-> TRUE,
     material |-> NotAMaterial,
     linearDamping |-> 0,
     angularDamping |-> 0,
     position |-> 0, velocity |-> 0, force |-> 0,
     angularVelocity |-> 0, tau |-> 0, angle |-> 0, quatDrift |-> 0,
     initPosition |-> 0, initVelocity |-> 0, initAngularVelocity |-> 0,
     initAngle |-> 0,
     timeLastSleepy |-> 0,
     \* whether the body has a preStep and a postStep callable
     preStep |-> FALSE, postStep |-> FALSE,
     inertiaWorldAutoUpdate |-> FALSE, invInertiaWorldAutoUpdate |-> FALSE]

NewConstraint == [id |-> -1]

NewMaterial == [id |-> -1]

(***************************************************************************)
(* World.prototype.id                                                      *)
(***************************************************************************)
\* the id handed out
IdValue(s) == s.world.nextId

\* id() without the increment
IdState_NoIncrement(s) == s

\* the state after this.nextId++
IdState(s) == [s EXCEPT !.world.nextId = @ + 1]

(***************************************************************************)
(* World.prototype.numObjects                                              *)
(***************************************************************************)
numObjects(s) == Len(s.world.bodies)

(***************************************************************************)
(* World.prototype.add.  The code has no test of body.world.  The copies   *)
(* between the live and the initial kinematic state (Vec3.copy and         *)
(* Quaternion.copy, outside World.js) set the live fields from the initial *)
(* ones.                                                                   *)
(***************************************************************************)
add(s, b) ==
    LET s1 == [IdState(s) EXCEPT
                 !.body[b].id = IdValue(s),
                 !.body[b].index = Len(s.world.bodies),
                 !.world.bodies = Append(@, b),
                 !.body[b].world = s.world.this,
                 !.body[b].position = s.body[b].initPosition,
                 !.body[b].velocity = s.body[b].initVelocity,
                 !.body[b].timeLastSleepy = s.world.time,
                 !.body[b].angularVelocity =
                    IF s.body[b].rotational
                    THEN s.body[b].initAngularVelocity ELSE @,
                 !.body[b].angle =
                    IF s.body[b].rotational THEN s.body[b].initAngle ELSE @,
                 !.body[b].quatDrift = IF s.body[b].rotational THEN 0 ELSE @]
        s2 == MatrixSetNumObjects(s1, s1.world.collisionMatrix,
                                  Len(s1.world.bodies))
        s3 == [s2 EXCEPT !.world.addBodyEvent.body = b]
    IN  DispatchEvent(s3, [type |-> "addBody", target |-> s.world.this, body |-> b])

(***************************************************************************)
(* World.prototype.remove                                                  *)
(***************************************************************************)
\* for(var i=body.index; i<n; i++) bodies[i].index = i
RECURSIVE ReindexFrom(_, _, _)
ReindexFrom(s, i, n) ==
    IF i < n
    THEN ReindexFrom([s EXCEPT !.body[s.world.bodies[i + 1]].index = i], i + 1, n)
    ELSE s

remove(s, b) ==
    LET n  == numObjects(s) - 1
        s1 == [s EXCEPT !.body[b].world = Null,
                        !.world.bodies = Splice1(@, s.body[b].index)]
        s2 == ReindexFrom(s1, s1.body[b].index, n)
        s3 == MatrixSetNumObjects(s2, s2.world.collisionMatrix, n)
        s4 == [s3 EXCEPT !.world.removeBodyEvent.body = b]
    IN  DispatchEvent(s4, [type |-> "removeBody", target |-> s.world.this, body |-> b])

(***************************************************************************)
(* World.prototype.addConstraint, World.prototype.removeConstraint         *)
(***************************************************************************)
addConstraint(s, c) ==
    LET s1 == [s EXCEPT !.world.constraints = Append(@, c)]
    IN  [IdState(s1) EXCEPT !.constraint[c].id = IdValue(s1)]

removeConstraint(s, c) ==
    LET idx == IndexOf(s.world.constraints, c)
    IN  IF idx # -1
        THEN [s EXCEPT !.world.constraints = Splice1(@, idx)]
        ELSE s

(***************************************************************************)
(* World.prototype.addMaterial                                             *)
(***************************************************************************)
\* addMaterial without the test of m.id
addMaterial_Always(s, m) ==
    LET n == Len(s.world.materials)
    IN  [s EXCEPT !.world.materials = Append(@, m),
                  !.material[m].id = n,
                  !.world.mats2cmat = @ \o Fill(2 * n + 1, -1)]

addMaterial(s, m) ==
    IF s.material[m].id = -1
    THEN LET n == Len(s.world.materials)
         IN  [s EXCEPT !.world.materials = Append(@, m),
                       !.material[m].id = n,
                       !.world.mats2cmat = @ \o Fill(2 * n + 1, -1)]
    ELSE s

(***************************************************************************)
(* World.prototype.addContactMaterial.  cmat is a new ContactMaterial      *)
(* object: [materials, friction, restitution].                             *)
(***************************************************************************)
\* a[addr] = v for a JavaScript array: an address past the end extends the
\* array (the holes read as undefined)
ArrayStore(a, addr, v) ==
    IF addr + 1 \in 1..Len(a)
    THEN [a EXCEPT ![addr + 1] = v]
    ELSE [k \in 1..(addr + 1) |->
            IF k = addr + 1 THEN v
            ELSE IF k <= Len(a) THEN a[k] ELSE UndefinedId]

addContactMaterial(s, cmat) ==
    LET s1 == addMaterial(s, cmat.materials[1])
        s2 == addMaterial(s1, cmat.materials[2])
        id0 == s2.material[cmat.materials[1]].id
        id1 == s2.material[cmat.materials[2]].id
        i == IF id0 > id1 THEN id0 ELSE id1
        j == IF id0 > id1 THEN id1 ELSE id0
        cid == Len(s2.world.contactmaterials)
    IN  [s2 EXCEPT
           !.world.contactmaterials = Append(@, [cmat EXCEPT !.id = cid]),
           !.world.mats2cmat = ArrayStore(@, i + Len(s2.world.materials) * j, cid)]

(***************************************************************************)
(* World.prototype.getContactMaterial.  m1, m2 are Material objects or     *)
(* NotAMaterial; the result is a contact material of                       *)
(* world.contactmaterials or NoContactMaterial (undefined).                *)
(***************************************************************************)
\* a[addr] for a JavaScript array a with the value undef for undefined:
\* undefined outside the array
ArrayLoad(a, addr, undef) ==
    IF addr + 1 \in 1..Len(a) THEN a[addr + 1] ELSE undef

\* getContactMaterial without the exchange of i and j
getContactMaterial_NoSwap(s, m1, m2) ==
    IF m1 \in Material /\ m2 \in Material
    THEN LET i == s.material[m1].id
             j == s.material[m2].id
         IN  ArrayLoad(s.world.contactmaterials,
                       ArrayLoad(s.world.mats2cmat,
                                 i + j * Len(s.world.materials), UndefinedId),
                       NoContactMaterial)
    ELSE NoContactMaterial

getContactMaterial(s, m1, m2) ==
    IF m1 \in Material /\ m2 \in Material
    THEN LET id1 == s.material[m1].id
             id2 == s.material[m2].id
             i == IF id1 < id2 THEN id2 ELSE id1
             j == IF id1 < id2 THEN id1 ELSE id2
         IN  ArrayLoad(s.world.contactmaterials,
                       ArrayLoad(s.world.mats2cmat,
                                 i + j * Len(s.world.materials), UndefinedId),
                       NoContactMaterial)
    ELSE NoContactMaterial

(***************************************************************************)
(* World.prototype.collisionMatrixTick                                     *)
(***************************************************************************)
\* collisionMatrixTick that clears the current buffer in place
collisionMatrixTick_NoSwap(s) == MatrixReset(s, s.world.collisionMatrix)

collisionMatrixTick(s) ==
    LET temp == s.world.collisionMatrixPrevious
        s1 == [s EXCEPT !.world.collisionMatrixPrevious = s.world.collisionMatrix,
                        !.world.collisionMatrix = temp]
    IN  MatrixReset(s1, s1.world.collisionMatrix)

(***************************************************************************)
(* World.prototype.step.                                                   *)
(*                                                                         *)
(* The collaborators are outside World.js.  The broadphase and the         *)
(* contact generator are the environment: the contacts the generator       *)
(* returns are an input of the step.  A contact is a record                *)
(* [bi, bj, ri, rj, ni] (ContactEquation), to which the step adds          *)
(* restitution and penetration.  The solver is the list of equations       *)
(* added to it; solve leaves the bodies as they are (its numerics are not  *)
(* part of the model).  Every call the step makes out of World.js (to a    *)
(* subsystem, the broadphase, the generator, the solver, a constraint, a   *)
(* listener, a callable of a body, Quaternion.vmult, sleepTick) is         *)
(* recorded in log with the state the callee finds; the callees change     *)
(* nothing, and sleepTick puts no body to sleep.  Profiling and the pair   *)
(* arrays of the broadphase change nothing the model keeps.                *)
(***************************************************************************)
\* a & b for small non-negative integers
RECURSIVE BitAnd(_, _)
BitAnd(a, b) ==
    IF a = 0 \/ b = 0 THEN 0
    ELSE 2 * BitAnd(a \div 2, b \div 2) + (a % 2) * (b % 2)

\* if(dt===undefined){ dt = this.last_dt || this.default_dt; }
\* args is the argument list of the call: <<>> or <<dt>>
StepSize(s, args) ==
    IF args = <<>>
    THEN IF s.world.last_dt # 0 THEN s.world.last_dt ELSE default_dt
    ELSE args[1]

\* Add gravity to all objects
GravityOne(s, b) ==
    IF BitAnd(s.body[b].motionstate, DYNAMIC) # 0
    THEN [s EXCEPT !.body[b].force = @ + s.body[b].mass * s.world.gravity]
    ELSE s

\* for(i=0; i!==N; i++), from i on
RECURSIVE GravityLoop(_, _, _)
GravityLoop(s, i, N) ==
    IF i # N
    THEN GravityLoop(GravityOne(s, s.world.bodies[i + 1]), i + 1, N)
    ELSE s

ApplyGravity(s, N) == GravityLoop(s, 0, N)

\* Body.wakeUp (objects/Body.js): the body is awake afterwards
wakeUp(s, b) == [s EXCEPT !.body[b].sleeping = FALSE]

\* Body.isSleeping (objects/Body.js)
isSleeping(s, b) == s.body[b].sleeping

\* g = ( xj + rj - xi - ri ) .dot ( ni )
Gap(bodies, c) ==
    (bodies[c.bj].position + c.rj - bodies[c.bi].position - c.ri) * c.ni

\* this.getContactMaterial(bi.material,bj.material) || this.defaultContactMaterial
ResolvedContactMaterial(s, c) ==
    LET cm == getContactMaterial(s, s.body[c.bi].material, s.body[c.bj].material)
    IN  IF cm # NoContactMaterial THEN cm ELSE s.world.defaultContactMaterial

\* twice the reduced mass of the code: 1/(invMass_i + invMass_j), or the
\* sum itself when it is not positive
ReducedMass2(s, c) ==
    LET sum == s.body[c.bi].invMass + s.body[c.bj].invMass
    IN  IF sum > 0 THEN 2 \div sum ELSE 2 * sum

\* solver.addEquation(eq)
AddEquation(s, eq) ==
    Log([s EXCEPT !.world.solver = Append(@, eq)], "addEquation", eq)

\* pool.length ? pool.pop() : new FrictionEquation(bi,bj,mug*reducedMass):
\* the state afterwards, the object being the last of s.taken
TakeFrictionEquation(s, c, slip) ==
    IF Len(s.pool) # 0
    THEN [s EXCEPT !.pool = SubSeq(@, 1, Len(@) - 1),
                   !.taken = Append(@, s.pool[Len(s.pool)])]
    ELSE [s EXCEPT !.feq = Append(@, [bi |-> c.bi, bj |-> c.bj,
                                      minForce |-> -slip, maxForce |-> slip,
                                      contact |-> <<-1, -1>>,
                                      lists |-> {}]),
                   !.taken = Append(@, Len(s.feq) + 1)]

\* Add friction constraint equation: the body of if(mu > 0) for contact k
FrictionSynthesis(s, k, c, mu) ==
    LET mug  == mu * Abs(s.world.gravity)
        slip == mug * ReducedMass2(s, c)
        s1 == TakeFrictionEquation([s EXCEPT !.taken = <<>>], c, slip)
        s2 == TakeFrictionEquation(s1, c, slip)
        c1 == s2.taken[1]
        c2 == s2.taken[2]
        setup(e) ==
            [bi |-> c.bi, bj |-> c.bj,
             minForce |-> -slip, maxForce |-> slip,
             \* not fields of the code: the step and contact the equation
             \* was set up for, and the worlds whose frictionEquations
             \* list has held the object
             contact |-> <<s.world.stepnumber, k>>,
             lists |-> s2.feq[e].lists \cup {s.world.this}]
        s3 == [s2 EXCEPT
                 !.world.frictionEquations = @ \o <<c1, c2>>,
                 !.feq = [[@ EXCEPT ![c1] = setup(c1)] EXCEPT ![c2] = setup(c2)]]
    IN  AddEquation(AddEquation(s3, <<"friction", c1>>), <<"friction", c2>>)

\* the collision response with friction equations for every contact
CollisionResponse_AnyMu(s, k, c, g, cm) ==
    IF s.body[c.bi].collisionResponse /\ s.body[c.bj].collisionResponse
    THEN FrictionSynthesis(
            AddEquation(
               [s EXCEPT !.world.contacts[k].restitution = cm.restitution,
                         !.world.contacts[k].penetration = g],
               <<"contact", k>>),
            k, c, cm.friction)
    ELSE s

\* if (bi.collisionResponse && bj.collisionResponse) { ... }
CollisionResponse(s, k, c, g, cm) ==
    IF s.body[c.bi].collisionResponse /\ s.body[c.bj].collisionResponse
    THEN LET s1 == AddEquation(
                      [s EXCEPT
                         !.world.contacts[k].restitution = cm.restitution,
                         !.world.contacts[k].penetration = g],
                      <<"contact", k>>)
         IN  IF cm.friction > 0
             THEN FrictionSynthesis(s1, k, c, cm.friction)
             ELSE s1
    ELSE s

\* Now we know that i and j are in contact. Set collision matrix state,
\* and dispatch the collide events on first contact
CollideEvents(s, k, c) ==
    LET s1 == MatrixSet(s, s.world.collisionMatrix, c.bi, c.bj, TRUE)
    IN  IF MatrixGet(s1, s1.world.collisionMatrix, c.bi, c.bj)
             # MatrixGet(s1, s1.world.collisionMatrixPrevious, c.bi, c.bj)
        THEN LET s2 == DispatchEvent(s1, [type |-> "collide", target |-> c.bi,
                                           with |-> c.bj, contact |-> k])
                 s3 == DispatchEvent(s2, [type |-> "collide", target |-> c.bj,
                                           with |-> c.bi, contact |-> k])
             IN  wakeUp(wakeUp(s3, c.bi), c.bj)
        ELSE s1

\* the body of the contact loop with the rising-edge check made only after
\* a contact equation was added
ContactOne_EdgeAfterEquation(s, k) ==
    LET c  == s.world.contacts[k]
        cm == ResolvedContactMaterial(s, c)
        g  == Gap(s.body, c)
        s1 == [s EXCEPT !.g = Append(@, g)]
    IN  IF g < 0 /\ s.body[c.bi].collisionResponse
                 /\ s.body[c.bj].collisionResponse
        THEN CollideEvents(CollisionResponse(s1, k, c, g, cm), k, c)
        ELSE s1

\* the body of the contact loop with the test g <= 0
ContactOne_NonStrict(s, k) ==
    LET c  == s.world.contacts[k]
        cm == ResolvedContactMaterial(s, c)
        g  == Gap(s.body, c)
        s1 == [s EXCEPT !.g = Append(@, g)]
    IN  IF g <= 0
        THEN CollideEvents(CollisionResponse(s1, k, c, g, cm), k, c)
        ELSE s1

\* the body of for(var k=0; k!==ncontacts; k++), for the contact contacts[k-1]
ContactOne(s, k) ==
    LET c  == s.world.contacts[k]
        cm == ResolvedContactMaterial(s, c)
        g  == Gap(s.body, c)
        s1 == [s EXCEPT !.g = Append(@, g)]
    IN  IF g < 0
        THEN CollideEvents(CollisionResponse(s1, k, c, g, cm), k, c)
        ELSE s1

RECURSIVE ContactLoop(_, _, _)
ContactLoop(s, k, ncontacts) ==
    IF k <= ncontacts THEN ContactLoop(ContactOne(s, k), k + 1, ncontacts) ELSE s

\* Add user-added constraints: c.update(), then solver.addEquation for
\* each equation of c (a constraint has one equation)
RECURSIVE ConstraintGather(_, _)
ConstraintGather(s, i) ==
    IF i <= Len(s.world.constraints)
    THEN LET c == s.world.constraints[i]
         IN  ConstraintGather(
                AddEquation(Log(s, "constraint.update", c), <<"constraint", c>>),
                i + 1)
    ELSE s

\* solver.solve(dt,this); solver.removeAllEquations()
Solve(s) ==
    LET s1 == Log(s, "solver.solve", s.dt)
        s2 == Log(s1, "solver.removeAllEquations", 0)
    IN  [s2 EXCEPT !.solved = s.world.solver, !.world.solver = <<>>]

\* Update subsystems: this.subsystems[i].update(), from i on
RECURSIVE UpdateSubsystems(_, _)
UpdateSubsystems(s, i) ==
    IF i # Len(s.world.subsystems)
    THEN UpdateSubsystems(Log(s, "subsystem.update", s.world.subsystems[i + 1]),
                          i + 1)
    ELSE s

\* this.broadphase.collisionPairs(this,p1,p2)
CollisionPairs(s) == Log(s, "broadphase.collisionPairs", 0)

\* Invoke pre-step callbacks, from i on
RECURSIVE PreStepCallbacks(_, _, _)
PreStepCallbacks(s, i, N) ==
    IF i # N
    THEN LET bi == s.world.bodies[i + 1]
         IN  PreStepCallbacks(IF s.body[bi].preStep
                              THEN Log(s, "body.preStep", bi) ELSE s,
                              i + 1, N)
    ELSE s

\* Invoke post-step callbacks, from i on
RECURSIVE PostStepCallbacks(_, _, _)
PostStepCallbacks(s, i, N) ==
    IF i # N
    THEN LET bi == s.world.bodies[i + 1]
         IN  PostStepCallbacks(IF s.body[bi].postStep
                               THEN Log(s, "body.postStep", bi) ELSE s,
                               i + 1, N)
    ELSE s

\* Update world inertias, from i on: b.quaternion.vmult(b.inertia,
\* b.inertiaWorld) and b.quaternion.vmult(b.invInertia,b.invInertiaWorld)
RECURSIVE UpdateWorldInertias(_, _, _)
UpdateWorldInertias(s, i, N) ==
    IF i # N
    THEN LET b  == s.world.bodies[i + 1]
             s1 == IF s.body[b].inertiaWorldAutoUpdate
                   THEN Log(s, "quaternion.vmult", <<b, "inertia">>) ELSE s
             s2 == IF s.body[b].invInertiaWorldAutoUpdate
                   THEN Log(s1, "quaternion.vmult", <<b, "invInertia">>) ELSE s1
         IN  UpdateWorldInertias(s2, i + 1, N)
    ELSE s

\* bodies[i].sleepTick(this.time), from i on; no body falls asleep
RECURSIVE SleepTicks(_, _, _)
SleepTicks(s, i, N) ==
    IF i # N
    THEN SleepTicks(Log(s, "body.sleepTick", <<s.world.bodies[i + 1], s.world.time>>),
                    i + 1, N)
    ELSE s

\* Sleeping update
SleepingUpdate(s, N) == IF s.world.allowSleep THEN SleepTicks(s, 0, N) ELSE s

\* Math.pow(1.0 - damping, dt) for damping 0 or 1 and dt > 0
DampingFactor(damping, dt) == IF damping = 0 THEN 1 ELSE 0

\* Apply damping
DampingOne(s, b) ==
    IF BitAnd(s.body[b].motionstate, DYNAMIC) # 0
    THEN [s EXCEPT
            !.body[b].velocity = @ * DampingFactor(s.body[b].linearDamping, s.dt),
            !.body[b].angularVelocity =
                IF s.body[b].rotational
                THEN @ * DampingFactor(s.body[b].angularDamping, s.dt)
                ELSE @]
    ELSE s

\* for(i=0; i!==N; i++), from i on
RECURSIVE DampingLoop(_, _, _)
DampingLoop(s, i, N) ==
    IF i # N
    THEN DampingLoop(DampingOne(s, s.world.bodies[i + 1]), i + 1, N)
    ELSE s

ApplyDamping(s, N) == DampingLoop(s, 0, N)

\* quatNormalize computed from the step number after the step
quatNormalize_AfterStep(s) ==
    (s.world.stepnumber + 1) % (s.world.quatNormalizeSkip + 1) = 0

\* var quatNormalize = stepnumber % (this.quatNormalizeSkip+1) === 0;
quatNormalize(s) == s.world.stepnumber % (s.world.quatNormalizeSkip + 1) = 0

\* the integration with the accumulators cleared for the integrated bodies
\* only
IntegrateOne_ClearIntegrated(s, b) ==
    LET o == s.body[b]
    IN  IF BitAnd(o.motionstate, DYNAMIC + KINEMATIC) # 0 /\ ~isSleeping(s, b)
        THEN LET velo == o.velocity + o.force * o.invMass * s.dt
                 angularVelo == IF o.rotational
                                THEN o.angularVelocity + o.tau * o.invInertia * s.dt
                                ELSE o.angularVelocity
             IN  [s EXCEPT
                    !.body[b].velocity = velo,
                    !.body[b].angularVelocity = angularVelo,
                    !.body[b].position = @ + velo * s.dt,
                    !.body[b].angle =
                       IF o.rotational THEN @ + angularVelo * s.dt ELSE @,
                    !.body[b].quatDrift =
                       IF o.rotational
                       THEN IF quatNormalize(s) THEN 0 ELSE @ + 1
                       ELSE @,
                    !.body[b].force = 0,
                    !.body[b].tau = IF o.rotational THEN 0 ELSE @]
        ELSE s

\* the integration with the position advanced by the velocity before the
\* step (explicit Euler)
IntegrateOne_OldVelocity(s, b) ==
    LET o  == s.body[b]
        s1 ==
          IF BitAnd(o.motionstate, DYNAMIC + KINEMATIC) # 0 /\ ~isSleeping(s, b)
          THEN LET velo == o.velocity + o.force * o.invMass * s.dt
                   angularVelo == IF o.rotational
                                  THEN o.angularVelocity + o.tau * o.invInertia * s.dt
                                  ELSE o.angularVelocity
               IN  [s EXCEPT
                      !.body[b].velocity = velo,
                      !.body[b].angularVelocity = angularVelo,
                      !.body[b].position = @ + o.velocity * s.dt,
                      !.body[b].angle =
                         IF o.rotational THEN @ + angularVelo * s.dt ELSE @,
                      !.body[b].quatDrift =
                         IF o.rotational
                         THEN IF quatNormalize(s) THEN 0 ELSE @ + 1
                         ELSE @]
          ELSE s
    IN  [s1 EXCEPT !.body[b].force = 0,
                   !.body[b].tau = IF o.rotational THEN 0 ELSE @]

\* the integration without the test of isSleeping
IntegrateOne_Asleep(s, b) ==
    LET o  == s.body[b]
        s1 ==
          IF BitAnd(o.motionstate, DYNAMIC + KINEMATIC) # 0
          THEN LET velo == o.velocity + o.force * o.invMass * s.dt
                   angularVelo == IF o.rotational
                                  THEN o.angularVelocity + o.tau * o.invInertia * s.dt
                                  ELSE o.angularVelocity
               IN  [s EXCEPT
                      !.body[b].velocity = velo,
                      !.body[b].angularVelocity = angularVelo,
                      !.body[b].position = @ + velo * s.dt,
                      !.body[b].angle =
                         IF o.rotational THEN @ + angularVelo * s.dt ELSE @,
                      !.body[b].quatDrift =
                         IF o.rotational
                         THEN IF quatNormalize(s) THEN 0 ELSE @ + 1
                         ELSE @]
          ELSE s
    IN  [s1 EXCEPT !.body[b].force = 0,
                   !.body[b].tau = IF o.rotational THEN 0 ELSE @]

\* the body of the integration loop ("Leap frog")
IntegrateOne(s, b) ==
    LET o  == s.body[b]
        s1 ==
          IF BitAnd(o.motionstate, DYNAMIC + KINEMATIC) # 0 /\ ~isSleeping(s, b)
          THEN LET velo == o.velocity + o.force * o.invMass * s.dt
                   angularVelo == IF o.rotational
                                  THEN o.angularVelocity + o.tau * o.invInertia * s.dt
                                  ELSE o.angularVelocity
               IN  [s EXCEPT
                      !.body[b].velocity = velo,
                      !.body[b].angularVelocity = angularVelo,
                      !.body[b].position = @ + velo * s.dt,
                      !.body[b].angle =
                         IF o.rotational THEN @ + angularVelo * s.dt ELSE @,
                      !.body[b].quatDrift =
                         IF o.rotational
                         THEN IF quatNormalize(s) THEN 0 ELSE @ + 1
                         ELSE @]
          ELSE s
    IN  [s1 EXCEPT !.body[b].force = 0,
                   !.body[b].tau = IF o.rotational THEN 0 ELSE @]

\* for(i=0; i!==N; i++), from i on
RECURSIVE IntegrateLoop(_, _, _)
IntegrateLoop(s, i, N) ==
    IF i # N
    THEN IntegrateLoop(IntegrateOne(s, s.world.bodies[i + 1]), i + 1, N)
    ELSE s

Integrate(s, N) == IntegrateLoop(s, 0, N)

\* Transfer FrictionEquation from current list to the pool for reuse
PoolTransfer(s) ==
    [s EXCEPT !.pool = @ \o s.world.frictionEquations,
              !.world.frictionEquations = <<>>]

\* for(i=0; i!==NoldContacts; i++){ oldcontacts.push(contacts[i]); }
\* contacts.length = 0.  Of a released contact object the model keeps the
\* world that released it (its fields are stale).
ReleaseContacts(s) ==
    [s EXCEPT !.oldContacts =
                 @ \o [i \in 1..Len(s.world.contacts) |->
                         [releasedBy |-> s.world.this]],
              !.world.contacts = <<>>]

\* this.contactgen.getContacts(p1,p2,this,contacts,oldcontacts): the
\* generator is offered the list of old contacts, fills contacts with
\* newContacts and takes an old contact object from the end of the list
\* for each while there is one
getContacts(s, newContacts) ==
    LET reused == IF Len(newContacts) < Len(s.oldContacts)
                  THEN Len(newContacts) ELSE Len(s.oldContacts)
    IN  [Log(s, "contactgen.getContacts", s.oldContacts)
           EXCEPT !.offered = s.oldContacts,
                  !.world.contacts = newContacts,
                  !.oldContacts = SubSeq(@, 1, Len(@) - reused)]

\* step with the integration moved before the preStep event
step_IntegrateBeforePreStep(s, args, newContacts) ==
    LET N  == numObjects(s)
        s0 == [s EXCEPT !.dt = StepSize(s, args)]
        s1 == CollisionPairs(UpdateSubsystems(ApplyGravity(s0, N), 0))
        s2 == collisionMatrixTick(s1)
        s3 == getContacts(ReleaseContacts(s2), newContacts)
        s4 == PoolTransfer(s3)
        s5 == ContactLoop(s4, 1, Len(s4.world.contacts))
        s6 == ConstraintGather(s5, 1)
        s7 == Solve(s6)
        s8 == Integrate(ApplyDamping(s7, N), N)
        s9 == PreStepCallbacks(
                 DispatchEvent(s8, [type |-> "preStep", target |-> s.world.this]),
                 0, N)
        s11 == [s9 EXCEPT !.world.time = @ + s0.dt,
                          !.world.stepnumber = @ + 1]
        s12 == PostStepCallbacks(
                 DispatchEvent(s11, [type |-> "postStep", target |-> s.world.this]),
                 0, N)
    IN  SleepingUpdate(UpdateWorldInertias(s12, 0, N), N)

\* step(dt), the contact generator returning newContacts
step(s, args, newContacts) ==
    LET N  == numObjects(s)
        s0 == [s EXCEPT !.dt = StepSize(s, args)]
        s1 == CollisionPairs(UpdateSubsystems(ApplyGravity(s0, N), 0))
        s2 == collisionMatrixTick(s1)
        s3 == getContacts(ReleaseContacts(s2), newContacts)
        s4 == PoolTransfer(s3)
        s5 == ContactLoop(s4, 1, Len(s4.world.contacts))
        s6 == ConstraintGather(s5, 1)
        s7 == Solve(s6)
        s8 == ApplyDamping(s7, N)
        s9 == PreStepCallbacks(
                 DispatchEvent(s8, [type |-> "preStep", target |-> s.world.this]),
                 0, N)
        s10 == Integrate(s9, N)
        s11 == [s10 EXCEPT !.world.time = @ + s0.dt,
                           !.world.stepnumber = @ + 1]
        s12 == PostStepCallbacks(
                 DispatchEvent(s11, [type |-> "postStep", target |-> s.world.this]),
                 0, N)
    IN  SleepingUpdate(UpdateWorldInertias(s12, 0, N), N)

(***************************************************************************)
(* The body registry: add, remove, addConstraint and removeConstraint      *)
(* called in any order on a new world.  remove is called on current        *)
(* members only (a body of world.bodies).                                  *)
(***************************************************************************)
NoCall == [op |-> "none"]

\* a second instance, as its constructor leaves it
NewOther ==
    [world |-> [NewWorld EXCEPT !.this = OtherWorld],
     matrix |-> [m \in 1..2 |-> NewCollisionMatrix]]

InitObjects ==
    /\ constraint = [c \in Constraint |-> NewConstraint]
    /\ material = [m \in Material |-> NewMaterial]
    /\ matrix = [m \in 1..2 |-> NewCollisionMatrix]
    /\ feq = <<>>
    /\ pool = <<>>
    /\ oldContacts = <<>>
    /\ other = NewOther
    /\ events = <<>>
    /\ call = NoCall

InitRegistry ==
    /\ world = NewWorld
    /\ body = [b \in Body |-> NewBody(DYNAMIC, TRUE)]
    /\ InitObjects

Add(b) ==
    /\ world.nextId < MaxIds
    /\ Commit(add(State, b))
    /\ call' = [op |-> "add", body |-> b, threw |-> Undefined]

Remove(b) ==
    /\ b \in Range(world.bodies)
    /\ Commit(remove(State, b))
    /\ call' = [op |-> "remove", body |-> b, threw |-> Undefined]

AddConstraint(c) ==
    /\ world.nextId < MaxIds
    /\ Commit(addConstraint(State, c))
    /\ call' = [op |-> "addConstraint", constraint |-> c]

RemoveConstraint(c) ==
    /\ Commit(removeConstraint(State, c))
    /\ call' = [op |-> "removeConstraint", constraint |-> c]

NextRegistry ==
    \/ \E b \in Body : Add(b)
    \/ \E b \in Body : Remove(b)
    \/ \E c \in Constraint : AddConstraint(c)
    \/ \E c \in Constraint : RemoveConstraint(c)

Spec == InitRegistry /\ [][NextRegistry]_vars

(***************************************************************************)
(* Claims about the body registry.                                         *)
(***************************************************************************)
\* C1: after any sequence of add and remove calls (remove on current
\* members only), every body b of world.bodies satisfies
\* world.bodies[b.index] === b.
C1_IndexIsPosition ==
    \A p \in 1..Len(world.bodies) :
        LET b == world.bodies[p]
        IN  /\ body[b].index + 1 \in 1..Len(world.bodies)
            /\ world.bodies[body[b].index + 1] = b

\* C2: add(body) with a body that already belongs to a world fails with an
\* InvalidStateError and leaves the body list, the body's id and index,
\* nextId and the size of the collision matrix unchanged; so no body is
\* ever present twice in world.bodies.
C2_AddOfMemberFails ==
    [][\A b \in Body :
         (body[b].world # Null /\ call'.op = "add" /\ call'.body = b)
         => /\ call'.threw = "InvalidStateError"
            /\ world'.bodies = world.bodies
            /\ body'[b].id = body[b].id
            /\ body'[b].index = body[b].index
            /\ world'.nextId = world.nextId
            /\ matrix'[world'.collisionMatrix].numObjects
                 = matrix[world.collisionMatrix].numObjects
            /\ \A p, q \in 1..Len(world'.bodies) :
                 world'.bodies[p] = world'.bodies[q] => p = q]_vars

\* the list l with every occurrence of x deleted, the rest in order
Without(l, x) == SelectSeq(l, LAMBDA y : y # x)

\* C11: remove(b) for a current member b leaves world.bodies equal to the
\* previous list with b deleted and the other bodies in their original
\* relative order, sets b.world to null, changes no remaining body's id,
\* and leaves the remaining bodies with the indices 0..n-1 (removing the
\* middle of three leaves two bodies with indices 0 and 1).
C11_RemoveDeletes ==
    [][\A b \in Body :
         (b \in Range(world.bodies) /\ call'.op = "remove" /\ call'.body = b)
         => /\ world'.bodies = Without(world.bodies, b)
            /\ body'[b].world = Null
            /\ \A o \in Body \ {b} : body'[o].id = body[o].id
            /\ {body'[o].index : o \in Range(world'.bodies)}
                 = 0..(Len(world'.bodies) - 1)]_vars

\* the same for a body list in which no body is present twice and every
\* body's index is its position (a list no double add has touched)
C11_RemoveDeletesDistinct ==
    [][\A b \in Body :
         (/\ b \in Range(world.bodies) /\ call'.op = "remove" /\ call'.body = b
          /\ C1_IndexIsPosition
          /\ \A p, q \in 1..Len(world.bodies) :
                world.bodies[p] = world.bodies[q] => p = q)
         => /\ world'.bodies = Without(world.bodies, b)
            /\ body'[b].world = Null
            /\ \A o \in Body \ {b} : body'[o].id = body[o].id
            /\ {body'[o].index : o \in Range(world'.bodies)}
                 = 0..(Len(world'.bodies) - 1)]_vars

\* the ids that bodies and constraints hold
IdsHeld ==
    {body[b].id : b \in Body} \cup {constraint[c].id : c \in Constraint}

\* C12: over any sequence of add, addConstraint and remove calls,
\* world.nextId never decreases and every id handed out is distinct from
\* every id handed out before: each add and addConstraint hands out the
\* value of nextId and moves nextId past it, every id an object holds
\* (removed objects included) is below nextId, and no two objects hold the
\* same id.
C12_IdsNeverReused ==
    [][/\ world'.nextId >= world.nextId
       /\ \A i \in IdsHeld : i < world.nextId
       /\ \A b \in Body :
            (call'.op = "add" /\ call'.body = b)
            => /\ body'[b].id = world.nextId
               /\ body'[b].id \notin IdsHeld
               /\ world'.nextId > world.nextId
       /\ \A c \in Constraint :
            (call'.op = "addConstraint" /\ call'.constraint = c)
            => /\ constraint'[c].id = world.nextId
               /\ constraint'[c].id \notin IdsHeld
               /\ world'.nextId > world.nextId
       /\ \A b1, b2 \in Body :
            (b1 # b2 /\ body'[b1].id # -1) => body'[b1].id # body'[b2].id
       /\ \A b \in Body, c \in Constraint :
            body'[b].id # -1 => body'[b].id # constraint'[c].id]_vars

\* a body is added after another was removed, and a constraint holds an id
C12_Witness ==
    /\ call.op = "add"
    /\ \E o \in Body \ {call.body} :
          /\ body[o].world = Null
          /\ body[o].id # -1
          /\ body[call.body].id # body[o].id
    /\ \E c \in Constraint : constraint[c].id # -1

\* C16: after any sequence of add, remove and step calls the current and
\* the previous collision matrix have the same shape: both are sized for
\* the current number of bodies.
C16_BuffersSameShape ==
    /\ matrix[world.collisionMatrix].numObjects = Len(world.bodies)
    /\ matrix[world.collisionMatrixPrevious].numObjects = Len(world.bodies)

(***************************************************************************)
(* The material pair table: addMaterial and addContactMaterial called in   *)
(* any order on a new world, each addContactMaterial with a new            *)
(* ContactMaterial object.  Material objects are interchangeable, so the   *)
(* k-th Material the caller brings to the world is Material k (materials   *)
(* already registered are passed again in any order and any number of      *)
(* times).                                                                 *)
(***************************************************************************)
\* m is registered, or it is the next Material the caller brings
NextToBring(mat, m) ==
    \/ mat[m].id # -1
    \/ \A k \in Material : k < m => mat[k].id # -1

\* friction coefficients of the contact materials the caller makes, in tenths
Frictions == {0, 5}

NewContactMaterial(m1, m2, friction) ==
    [materials |-> <<m1, m2>>, friction |-> friction, restitution |-> 0,
     id |-> -1]

InitMaterials ==
    /\ world = NewWorld
    /\ body = [b \in Body |-> NewBody(DYNAMIC, TRUE)]
    /\ InitObjects

AddMaterial(m) ==
    /\ NextToBring(material, m)
    /\ Commit(addMaterial(State, m))
    /\ call' = [op |-> "addMaterial", material |-> m]

AddContactMaterial(m1, m2, friction) ==
    /\ Len(world.contactmaterials) < MaxContactMaterials
    /\ NextToBring(material, m1)
    /\ NextToBring(addMaterial(State, m1).material, m2)
    /\ Commit(addContactMaterial(State, NewContactMaterial(m1, m2, friction)))
    /\ call' = [op |-> "addContactMaterial", materials |-> <<m1, m2>>]

NextMaterials ==
    \/ \E m \in Material : AddMaterial(m)
    \/ \E m1, m2 \in Material : AddContactMaterial(m1, m2, DefaultFriction)

SpecMaterials == InitMaterials /\ [][NextMaterials]_vars

(***************************************************************************)
(* Claims about the material pair table.                                   *)
(***************************************************************************)
\* the contact materials registered for the unordered pair {m1, m2}, as
\* indices of world.contactmaterials
RegisteredFor(m1, m2) ==
    {c \in 1..Len(world.contactmaterials) :
        Range(world.contactmaterials[c].materials) = {m1, m2}}

\* the one registered last
LastRegisteredFor(m1, m2) ==
    world.contactmaterials[
        CHOOSE c \in RegisteredFor(m1, m2) : \A d \in RegisteredFor(m1, m2) : d <= c]

MaterialArgs == Material \cup {NotAMaterial}

\* C3: if a contact material cm was registered for (m1, m2) and none was
\* registered later for the same unordered pair, getContactMaterial(m1, m2)
\* returns cm at every later point, whatever materials and contact
\* materials for other pairs were added since.
C3_LookupReturnsRegistered ==
    \A m1, m2 \in Material :
        RegisteredFor(m1, m2) # {}
        => getContactMaterial(State, m1, m2) = LastRegisteredFor(m1, m2)

\* C4: getContactMaterial(m1, m2) returns no result for every pair for
\* which no contact material was ever registered (m1 = m2 and unregistered
\* materials included), and never a contact material registered for a
\* different pair.
C4_LookupOnlyRegistered ==
    \A m1, m2 \in MaterialArgs :
        LET r == getContactMaterial(State, m1, m2)
        IN  /\ RegisteredFor(m1, m2) = {} => r = NoContactMaterial
            /\ r # NoContactMaterial => Range(r.materials) = {m1, m2}

\* C5: in every reachable state of the material table,
\* getContactMaterial(m1, m2) and getContactMaterial(m2, m1) return the same
\* result, for all m1, m2.
C5_LookupSymmetric ==
    \A m1, m2 \in MaterialArgs :
        getContactMaterial(State, m1, m2) = getContactMaterial(State, m2, m1)

\* a contact material is registered for two different materials and both
\* orders of the lookup find it
C5_Witness ==
    \E m1, m2 \in Material :
        /\ material[m1].id < material[m2].id
        /\ RegisteredFor(m1, m2) # {}
        /\ getContactMaterial(State, m1, m2) # NoContactMaterial
        /\ getContactMaterial(State, m2, m1) = LastRegisteredFor(m1, m2)

\* C13: addMaterial(m) for a material whose id is not -1 changes nothing:
\* the material list, every material's id and the pair-index table are
\* unchanged.  As a result the ids of the registered materials are always
\* 0..n-1 in insertion order (an unregistered material has id -1) and the
\* pair-index table has n*n slots for n registered materials.
C13_ReAddIsNoOp ==
    [][/\ \A m \in Material :
            (material[m].id # -1 /\ call'.op = "addMaterial"
             /\ call'.material = m)
            => /\ world'.materials = world.materials
               /\ material' = material
               /\ world'.mats2cmat = world.mats2cmat
       /\ \A i \in 1..Len(world'.materials) :
            material'[world'.materials[i]].id = i - 1
       /\ \A m \in Material :
            m \notin Range(world'.materials) => material'[m].id = -1
       /\ Len(world'.mats2cmat)
            = Len(world'.materials) * Len(world'.materials)]_vars

\* the last call was addMaterial of a material registered before it (a
\* material just registered is the last of the list), with a contact
\* material in the table
C13_Witness ==
    /\ call.op = "addMaterial"
    /\ material[call.material].id # -1
    /\ call.material # world.materials[Len(world.materials)]
    /\ \E a \in 1..Len(world.mats2cmat) : world.mats2cmat[a] # -1

(***************************************************************************)
(* Stepping a world of two bodies: body 1 is dynamic and falls under       *)
(* gravity, body 2 is static.  The caller has either given the bodies no   *)
(* material, or the materials 1 and 2 with a contact material between      *)
(* them, and has enabled or disabled the collision response of body 2;     *)
(* without materials, the caller may also have put body 1 to sleep.        *)
(* Each step is called without dt; the contact generator returns any list  *)
(* of at most MaxContacts contact points of the two bodies, each with a    *)
(* gap of Gaps.                                                            *)
(***************************************************************************)
Gaps == {-1, 0}

\* the world and the objects after the caller's set-up calls
SetUp(gravity, skip, bodies, cmats) ==
    LET RECURSIVE AddAll(_, _)
        AddAll(s, i) == IF i <= NumBodies /\ i <= Len(bodies)
                        THEN AddAll(add(s, i), i + 1) ELSE s
        RECURSIVE AddCMats(_, _)
        AddCMats(s, i) == IF i <= Len(cmats)
                          THEN AddCMats(addContactMaterial(s, cmats[i]), i + 1)
                          ELSE s
        s0 == [world |-> [NewWorld EXCEPT !.gravity = gravity,
                                          !.quatNormalizeSkip = skip],
               body |-> [b \in Body |-> IF b <= Len(bodies) THEN bodies[b]
                                        ELSE NewBody(DYNAMIC, TRUE)],
               constraint |-> [c \in Constraint |-> NewConstraint],
               material |-> [m \in Material |-> NewMaterial],
               matrix |-> [m \in 1..2 |-> NewCollisionMatrix],
               feq |-> <<>>, pool |-> <<>>, oldContacts |-> <<>>,
               other |-> NewOther, events |-> <<>>,
               dt |-> 0, g |-> <<>>, solved |-> <<>>, taken |-> <<>>,
               offered |-> <<>>, log |-> <<>>]
    IN  AddAll(AddCMats(s0, 1), 1)

InitFrom(s) ==
    /\ world = s.world
    /\ body = s.body
    /\ constraint = s.constraint
    /\ material = s.material
    /\ matrix = s.matrix
    /\ feq = s.feq
    /\ pool = s.pool
    /\ oldContacts = s.oldContacts
    /\ other = s.other
    /\ events = <<>>
    /\ call = NoCall

InitStep ==
    \E withMaterials \in BOOLEAN, f \in Frictions, response \in BOOLEAN,
       asleep \in BOOLEAN :
        /\ withMaterials \/ f = 0
        /\ asleep => ~withMaterials
        /\ InitFrom(
              [SetUp(-1, 0,
                 <<[NewBody(DYNAMIC, TRUE) EXCEPT
                       !.material = IF withMaterials THEN 1 ELSE NotAMaterial],
                   [NewBody(STATIC, TRUE) EXCEPT
                       !.material = IF withMaterials THEN 2 ELSE NotAMaterial,
                       !.collisionResponse = response]>>,
                 IF withMaterials THEN <<NewContactMaterial(1, 2, f)>> ELSE <<>>)
               EXCEPT !.body[1].sleeping = asleep])

\* a contact between bi and bj whose gap is gap, as the generator makes it
\* from the positions of the bodies
NewContact(bi, bj, gap) ==
    [bi |-> bi, bj |-> bj, ri |-> 0,
     rj |-> gap - (body[bj].position - body[bi].position), ni |-> 1,
     restitution |-> 0, penetration |-> 0]

\* The broadphase proposes the pair once per step, in one order or the
\* other, and the generator makes all its contact points in that order: the
\* lists of at most MaxContacts contacts of bi and bj, each with a gap of Gaps
ContactListsOf(bi, bj) ==
    UNION {[1..n -> {NewContact(bi, bj, gap) : gap \in Gaps}] :
             n \in 0..MaxContacts}

ContactLists == ContactListsOf(1, 2) \cup ContactListsOf(2, 1)

\* the generator returns no contact or one contact point of bi and bj
OneContactListsOf(bi, bj) ==
    {<<>>} \cup {<<NewContact(bi, bj, gap)>> : gap \in Gaps}

Step(args, newContacts) ==
    /\ world.stepnumber < MaxSteps
    /\ \E s \in {step(State, args, newContacts)} :
           /\ CommitState(s)
           /\ call' = [op |-> "step", args |-> args, dt |-> s.dt, g |-> s.g,
                       solved |-> s.solved]

NextStep == \E cs \in ContactLists : Step(<<>>, cs)

SpecStep == InitStep /\ [][NextStep]_vars

(***************************************************************************)
(* The same world (bodies without materials, collision response enabled),  *)
(* with collisionMatrixTick also called by the caller.                     *)
(***************************************************************************)
InitTick ==
    InitFrom(SetUp(-1, 0, <<NewBody(DYNAMIC, TRUE), NewBody(STATIC, TRUE)>>,
                   <<>>))

CollisionMatrixTick ==
    /\ Commit(collisionMatrixTick(State))
    /\ call' = [op |-> "collisionMatrixTick"]

NextTick ==
    \/ \E cs \in ContactLists : Step(<<>>, cs)
    \/ CollisionMatrixTick

SpecTick == InitTick /\ [][NextTick]_vars

(***************************************************************************)
(* Stepping a world without contacts, with and without the dt argument:    *)
(* body 1 is a dynamic rigid body, body 2 is any body, asleep or awake,    *)
(* and quatNormalizeSkip is any value up to MaxSkip.                       *)
(***************************************************************************)
\* the dt arguments of the caller, in units of 1/120 s
DtArgs == {1, 4}

MotionStates == {DYNAMIC, STATIC, KINEMATIC}

InitTime ==
    \E skip \in 0..MaxSkip, ms \in MotionStates, rot \in BOOLEAN,
       asleep \in BOOLEAN :
        InitFrom(
          [SetUp(-1, skip, <<NewBody(DYNAMIC, TRUE), NewBody(ms, rot)>>, <<>>)
             EXCEPT !.body[2].sleeping = asleep])

NextTime ==
    \/ Step(<<>>, <<>>)
    \/ \E dt \in DtArgs : Step(<<dt>>, <<>>)

SpecTime == InitTime /\ [][NextTime]_vars

(***************************************************************************)
(* Free fall: a world whose only body is an awake dynamic body of mass 1   *)
(* without damping, with any initial position and velocity of              *)
(* InitialPositions and InitialVelocities and any gravity of Gravities,    *)
(* stepped without contacts and constraints, every step with the same      *)
(* argument list (no dt, or the same dt).                                  *)
(***************************************************************************)
InitialPositions == {0, 10}
InitialVelocities == {-1, 0, 1}
Gravities == {-2, -1, 0}

InitFall ==
    \E p0 \in InitialPositions, v0 \in InitialVelocities, gy \in Gravities :
        InitFrom(SetUp(gy, 0,
                       <<[NewBody(DYNAMIC, TRUE) EXCEPT !.initPosition = p0,
                                                        !.initVelocity = v0]>>,
                       <<>>))

StepSame(args) ==
    /\ IF call.op = "none" THEN TRUE ELSE call.args = args
    /\ Step(args, <<>>)

NextFall == \E args \in {<<>>} \cup {<<dt>> : dt \in DtArgs} : StepSame(args)

SpecFall == InitFall /\ [][NextFall]_vars

(***************************************************************************)
(* Forces: the world of the previous specification with quatNormalizeSkip  *)
(* 0, whose caller applies a force (and a torque, to a rigid body) to a    *)
(* body between steps; a step records the accumulators it found.           *)
(***************************************************************************)
InitForce ==
    \E ms \in MotionStates, rot \in BOOLEAN, asleep \in BOOLEAN :
        InitFrom(
          [SetUp(-1, 0, <<NewBody(DYNAMIC, TRUE), NewBody(ms, rot)>>, <<>>)
             EXCEPT !.body[2].sleeping = asleep])

\* the caller adds one unit to the accumulators of b (Body.force and
\* Body.tau are public fields); a caller applies a force once between steps
ApplyForce(b) ==
    /\ b \in Range(world.bodies)
    /\ body[b].force = 0
    /\ body' = [body EXCEPT ![b].force = @ + 1,
                            ![b].tau = IF body[b].rotational THEN @ + 1 ELSE @]
    /\ call' = [op |-> "applyForce", body |-> b]
    /\ events' = <<>>
    /\ UNCHANGED <<world, constraint, material, matrix, feq, pool, oldContacts,
                   other>>

StepAfterForces ==
    /\ world.stepnumber < MaxSteps
    /\ \E s \in {step(State, <<>>, <<>>)} :
           /\ CommitState(s)
           /\ call' = [op |-> "step", args |-> <<>>, dt |-> s.dt,
                       force |-> [b \in Body |-> body[b].force],
                       tau |-> [b \in Body |-> body[b].tau]]

NextForce ==
    \/ \E b \in Body : ApplyForce(b)
    \/ StepAfterForces

SpecForce == InitForce /\ [][NextForce]_vars

(***************************************************************************)
(* The phases of a step: a world with or without two subsystems, with or   *)
(* without sleeping enabled, with one constraint, a dynamic rigid body 1   *)
(* with full linear damping, an initial velocity, preStep and postStep     *)
(* callables and automatic world inertias, and a static body 2 with or     *)
(* without callables.  The generator returns at most one contact point,   *)
(* and a step records the calls it made.                                   *)
(***************************************************************************)
InitPhases ==
    \E subsystems \in {<<>>, <<1, 2>>}, allowSleep \in BOOLEAN,
       callables \in BOOLEAN :
        InitFrom(
          [addConstraint(
              SetUp(-1, 0,
                    <<[NewBody(DYNAMIC, TRUE) EXCEPT
                          !.linearDamping = 1, !.initVelocity = 3,
                          !.preStep = TRUE, !.postStep = TRUE,
                          !.inertiaWorldAutoUpdate = TRUE,
                          !.invInertiaWorldAutoUpdate = TRUE],
                      [NewBody(STATIC, TRUE) EXCEPT
                          !.preStep = callables, !.postStep = callables]>>,
                    <<>>), 1)
             EXCEPT !.world.subsystems = subsystems,
                    !.world.allowSleep = allowSleep])

StepLogged(newContacts) ==
    /\ world.stepnumber < MaxSteps
    /\ \E s \in {step(State, <<>>, newContacts)} :
           /\ CommitState(s)
           /\ call' = [op |-> "step", args |-> <<>>, dt |-> s.dt, g |-> s.g,
                       solved |-> s.solved, log |-> s.log]

NextPhases ==
    \E cs \in OneContactListsOf(1, 2) \cup OneContactListsOf(2, 1) :
        StepLogged(cs)

SpecPhases == InitPhases /\ [][NextPhases]_vars

(***************************************************************************)
(* Two World instances in one program, each with a dynamic and a static    *)
(* body of its own and the default contact material, stepped in any        *)
(* interleaving of whole steps.  The bodies, the friction equations and    *)
(* the module-level pools are the program's; world and matrix are those of *)
(* the first instance, other holds the second one.                         *)
(***************************************************************************)
\* the program state with the two World instances exchanged, to call a
\* method on the other one
Switch(s) ==
    [s EXCEPT !.world = s.other.world,
              !.matrix = s.other.matrix,
              !.other = [world |-> s.world, matrix |-> s.matrix]]

\* the bodies of the second instance
OtherBodies == <<NumBodies + 1, NumBodies + 2>>

InitWorlds ==
    LET s0 == [world |-> [NewWorld EXCEPT !.gravity = -1],
               body |-> [b \in Body \cup Range(OtherBodies) |->
                           IF b \in {1, OtherBodies[1]}
                           THEN NewBody(DYNAMIC, TRUE)
                           ELSE NewBody(STATIC, TRUE)],
               constraint |-> [c \in Constraint |-> NewConstraint],
               material |-> [m \in Material |-> NewMaterial],
               matrix |-> [m \in 1..2 |-> NewCollisionMatrix],
               feq |-> <<>>, pool |-> <<>>, oldContacts |-> <<>>,
               other |-> [NewOther EXCEPT !.world.gravity = -1],
               events |-> <<>>,
               dt |-> 0, g |-> <<>>, solved |-> <<>>, taken |-> <<>>,
               offered |-> <<>>, log |-> <<>>]
        s1 == add(add(s0, 1), 2)
        s2 == add(add(Switch(s1), OtherBodies[1]), OtherBodies[2])
    IN  InitFrom(Switch(s2))

\* w.step() for the instance w
StepWorld(w, newContacts) ==
    /\ (IF w = ThisWorld THEN world ELSE other.world).stepnumber < MaxSteps
    /\ \E s \in {IF w = ThisWorld
                 THEN step(State, <<>>, newContacts)
                 ELSE Switch(step(Switch(State), <<>>, newContacts))} :
           /\ CommitState(s)
           /\ call' = [op |-> "step", world |-> w, offered |-> s.offered]

NextWorlds ==
    \/ \E cs \in OneContactListsOf(1, 2) : StepWorld(ThisWorld, cs)
    \/ \E cs \in OneContactListsOf(OtherBodies[1], OtherBodies[2]) :
          StepWorld(OtherWorld, cs)

SpecWorlds == InitWorlds /\ [][NextWorlds]_vars

(***************************************************************************)
(* Claims about the step.                                                  *)
(***************************************************************************)
\* the pairs of bodies with a penetrating contact (gap < 0) in the step
\* that call c reports, for the world w after it; none if c is no step
PenetratingPairs(w, c) ==
    IF c.op = "step"
    THEN {{w.contacts[k].bi, w.contacts[k].bj} :
            k \in {j \in 1..Len(w.contacts) : c.g[j] < 0}}
    ELSE {}

\* how many collide events of the list ev went to body a with body b
CollideCount(ev, a, b) ==
    Cardinality({p \in 1..Len(ev) :
        ev[p].type = "collide" /\ ev[p].target = a /\ ev[p].with = b})

\* C6: for a given pair of bodies the collide event is dispatched exactly
\* once to each of the two bodies per maximal run of consecutive steps in
\* which the pair has a penetrating contact: once in the first step of the
\* run, whatever the number of contact points, and not in the later steps.
C6_CollideOncePerRun ==
    [][call'.op = "step"
       => \A a, b \in Body :
            a # b =>
              CollideCount(events', a, b) =
                IF /\ {a, b} \in PenetratingPairs(world', call')
                   /\ {a, b} \notin PenetratingPairs(world, call)
                THEN 1 ELSE 0]_vars

\* C7: collisionMatrixTick swaps the two buffers without reallocation: the
\* buffer designated previous afterwards is the object that was current,
\* with its contents unchanged, and the buffer designated current is the
\* former previous object, with every pair cleared.
C7_TickSwapsAndClears ==
    [][call'.op = "collisionMatrixTick"
       => /\ world'.collisionMatrixPrevious = world.collisionMatrix
          /\ matrix'[world'.collisionMatrixPrevious]
                = matrix[world.collisionMatrix]
          /\ world'.collisionMatrix = world.collisionMatrixPrevious
          /\ matrix'[world'.collisionMatrix].pairs = {}
          /\ matrix'[world'.collisionMatrix].numObjects
                = matrix[world.collisionMatrixPrevious].numObjects]_vars

\* a tick has moved a buffer that records a touching pair to previous
C7_Witness ==
    /\ call.op = "collisionMatrixTick"
    /\ matrix[world.collisionMatrixPrevious].pairs # {}
    /\ world.collisionMatrixPrevious = 1
    /\ world.stepnumber > 1

\* C8: a step called without dt uses the dt of the most recent step call
\* before it (supplied or defaulted), and the default 1/60 only if no step
\* has been taken yet.
C8_DefaultIsLastDt ==
    [][(call'.op = "step" /\ call'.args = <<>>)
       => call'.dt = IF call.op = "step" THEN call.dt ELSE default_dt]_vars

\* contact k of the step qualifies for friction: it penetrates, both bodies
\* have collision response, and the resolved friction coefficient is > 0
\* (bodies: the bodies during the contact loop, s: the state after it)
QualifiesForFriction(bodies, s, c) ==
    /\ Gap(bodies, c) < 0
    /\ bodies[c.bi].collisionResponse
    /\ bodies[c.bj].collisionResponse
    /\ ResolvedContactMaterial(s, c).friction > 0

\* C9: after each step world.frictionEquations holds exactly two friction
\* equations for every contact of that step that qualifies for friction
\* and none for any other contact; no friction equation of an earlier step
\* remains in the list.
C9_FrictionEquations ==
    [][call'.op = "step"
       => LET cs == world'.contacts
              L  == world'.frictionEquations
              n  == world.stepnumber
          IN  /\ \A p, q \in 1..Len(L) : L[p] = L[q] => p = q
              /\ \A k \in 1..Len(cs) :
                   Cardinality({p \in 1..Len(L) :
                       /\ feq'[L[p]].contact = <<n, k>>
                       /\ feq'[L[p]].bi = cs[k].bi
                       /\ feq'[L[p]].bj = cs[k].bj})
                   = IF QualifiesForFriction(body, State', cs[k]) THEN 2 ELSE 0
              /\ \A p \in 1..Len(L) :
                   /\ feq'[L[p]].contact[1] = n
                   /\ feq'[L[p]].contact[2] \in 1..Len(cs)]_vars

\* a step with a penetrating and a separated contact has taken the two
\* friction equations of the penetrating one from the pool
C9_Witness ==
    /\ call.op = "step"
    /\ Len(world.contacts) = 2
    /\ call.g[1] >= 0
    /\ call.g[2] < 0
    /\ Len(world.frictionEquations) = 2
    /\ Len(pool) = 2
    /\ Len(feq) = 4

\* C10: with quatNormalizeSkip = k held constant, the quaternion of every
\* integrated rotational body is renormalized in a step if and only if the
\* step number at the start of the step is congruent to 0 modulo k+1.
C10_RenormalizationCadence ==
    call.op = "step"
    => \A b \in Range(world.bodies) :
         (/\ body[b].rotational
          /\ BitAnd(body[b].motionstate, DYNAMIC + KINEMATIC) # 0
          /\ ~body[b].sleeping)
         => (body[b].quatDrift = 0
             <=> (world.stepnumber - 1) % (world.quatNormalizeSkip + 1) = 0)

\* the third step, with quatNormalizeSkip = 1, has renormalized the
\* quaternion of a kinematic rigid body that the second step left alone
C10_Witness ==
    /\ call.op = "step"
    /\ world.quatNormalizeSkip = 1
    /\ world.stepnumber = 3
    /\ body[2].rotational
    /\ body[2].motionstate = KINEMATIC
    /\ ~body[2].sleeping
    /\ body[2].quatDrift = 0


\* C14: with two World instances stepped in any interleaving of whole
\* steps, a friction equation object that has been in the frictionEquations
\* list of one world is never placed in the list of the other, and the old
\* contacts offered to the contact generator in a step of one world were
\* all released by that world.
C14_StepStateIsPrivate ==
    /\ \A e \in 1..Len(feq) : Cardinality(feq[e].lists) <= 1
    /\ call.op = "step"
       => \A i \in 1..Len(call.offered) :
             call.offered[i].releasedBy = call.world

\* the first half alone
C14_FrictionEquationsPrivate ==
    \A e \in 1..Len(feq) : Cardinality(feq[e].lists) <= 1

\* the second half alone
C14_OldContactsPrivate ==
    call.op = "step"
    => \A i \in 1..Len(call.offered) : call.offered[i].releasedBy = call.world

\* v0 + k*dt*g: the velocity after step k
VelocityAfter(v0, k, dt, g) == v0 + k * dt * g

\* the sum of the velocities after the steps 1..n
RECURSIVE SumOfVelocities(_, _, _, _)
SumOfVelocities(v0, n, dt, g) ==
    IF n = 0 THEN 0
    ELSE SumOfVelocities(v0, n - 1, dt, g) + VelocityAfter(v0, n, dt, g)

\* C15: for a single awake dynamic body of mass 1 with zero damping, no
\* contacts and no constraints, stepped n times with a fixed dt under a
\* constant gravity g, gravity is applied once per step and not
\* accumulated, and the position is advanced with the updated velocity:
\* after step n, velocity = v0 + n*dt*g and position = p0 + dt * (the sum
\* of the velocities after the steps 1..n); the force is zero again.
C15_FreeFall ==
    call.op = "step"
    => LET n  == world.stepnumber
           dt == call.dt
           g  == world.gravity
           b  == body[1]
       IN  /\ b.velocity = VelocityAfter(b.initVelocity, n, dt, g)
           /\ b.position
                = b.initPosition + dt * SumOfVelocities(b.initVelocity, n, dt, g)
           /\ b.force = 0

\* three steps or more with a dt other than the default, under gravity,
\* from a velocity other than zero
C15_Witness ==
    /\ call.op = "step"
    /\ call.args # <<>>
    /\ world.stepnumber >= 3
    /\ world.gravity # 0
    /\ body[1].initVelocity # 0
    /\ body[1].velocity # body[1].initVelocity


\* the contacts of the last step whose contact equation was given to the
\* solver
ContactsSolved == {k \in 1..Len(world.contacts) : <<"contact", k>> \in Range(call.solved)}

\* C17: during a step, a contact returned by the contact generator is
\* added to the solver as a contact equation (once) if and only if its gap
\* g is strictly negative and both of its bodies have collision response
\* enabled.
C17_ContactEquationIff ==
    call.op = "step"
    => /\ \A k \in 1..Len(world.contacts) :
            k \in ContactsSolved
            <=> /\ call.g[k] < 0
                /\ body[world.contacts[k].bi].collisionResponse
                /\ body[world.contacts[k].bj].collisionResponse
       /\ \A p, q \in 1..Len(call.solved) :
            (call.solved[p] = call.solved[q] /\ call.solved[p][1] = "contact")
            => p = q

\* a step with a contact that was added and a contact with gap 0 that was
\* not
C17_Witness ==
    /\ call.op = "step"
    /\ \E k \in ContactsSolved : call.g[k] < 0
    /\ \E k \in 1..Len(world.contacts) :
          k \notin ContactsSolved /\ call.g[k] = 0

\* a step with a penetrating contact of a body without collision response
C17_WitnessNoResponse ==
    /\ call.op = "step"
    /\ \E k \in 1..Len(world.contacts) :
          /\ call.g[k] < 0
          /\ ~body[world.contacts[k].bj].collisionResponse
             \/ ~body[world.contacts[k].bi].collisionResponse


\* the collide events among the events ev, in order
CollideEventsOf(ev) == SelectSeq(ev, LAMBDA e : e.type = "collide")

Integrated(b) ==
    BitAnd(body[b].motionstate, DYNAMIC + KINEMATIC) # 0 /\ ~body[b].sleeping

\* C19: at the end of every step the force accumulator, and the torque
\* accumulator of a rigid body, of every body of the world is zero,
\* whatever its motion state and whether or not it is asleep; so a force
\* applied before the step and the gravity added in the step act on the
\* velocity in this step only: the velocity of an integrated body changes
\* by (force + mass*gravity for a dynamic body) * invMass * dt and the
\* angular velocity of a rigid one by tau * invInertia * dt, and the
\* velocities of the other bodies do not change.
C19_AccumulatorsCleared ==
    [][call'.op = "step"
       => \A b \in Range(world.bodies) :
            LET o  == body[b]
                fg == IF BitAnd(o.motionstate, DYNAMIC) # 0
                      THEN o.mass * world.gravity ELSE 0
            IN  /\ body'[b].force = 0
                /\ o.rotational => body'[b].tau = 0
                /\ body'[b].velocity
                     = IF Integrated(b)
                       THEN o.velocity + (o.force + fg) * o.invMass * call'.dt
                       ELSE o.velocity
                /\ o.rotational
                   => body'[b].angularVelocity
                        = IF Integrated(b)
                          THEN o.angularVelocity + o.tau * o.invInertia * call'.dt
                          ELSE o.angularVelocity]_vars

\* a step that found a force and a torque on a static rigid body, or on a
\* sleeping one, and a force on the dynamic body 1
C19_Witness ==
    /\ call.op = "step"
    /\ call.force[1] # 0
    /\ call.force[2] # 0
    /\ call.tau[2] # 0
    /\ body[2].rotational
    /\ body[2].motionstate = STATIC \/ body[2].sleeping
    /\ body[2].force = 0
    /\ body[2].tau = 0


\* the calls of the log l to callee, and the arguments of the calls of l
CallsTo(l, callee) == SelectSeq(l, LAMBDA e : e.callee = callee)
ArgsOf(l) == [i \in 1..Len(l) |-> l[i].arg]

\* the events of type dispatched in the log l
Dispatched(l, type) ==
    SelectSeq(CallsTo(l, "dispatchEvent"), LAMBDA e : e.arg.type = type)

\* the phase of the list of the claim (1 gravity .. 18 sleep tick) in which
\* the call e is made; the phases 1, 4, 10, 13 and 14 (gravity, collision
\* matrix tick, damping, integration, advance of time) make no call
PhaseOf(e) ==
    CASE e.callee = "subsystem.update" -> 2
      [] e.callee = "broadphase.collisionPairs" -> 3
      [] e.callee = "contactgen.getContacts" -> 5
      [] e.callee = "addEquation" -> IF e.arg[1] = "constraint" THEN 7 ELSE 6
      [] e.callee = "constraint.update" -> 7
      [] e.callee = "solver.solve" -> 8
      [] e.callee = "solver.removeAllEquations" -> 9
      [] e.callee = "dispatchEvent" ->
            IF e.arg.type = "collide" THEN 6
            ELSE IF e.arg.type = "preStep" THEN 11 ELSE 15
      [] e.callee = "body.preStep" -> 12
      [] e.callee = "body.postStep" -> 16
      [] e.callee = "quaternion.vmult" -> 17
      [] e.callee = "body.sleepTick" -> 18

\* the calls of the log l made in the phase p
InPhase(l, p) == SelectSeq(l, LAMBDA e : PhaseOf(e) = p)

\* C20: within one step the calls out of the step are made phase by phase
\* in the order of the list (subsystem updates, broadphase, contact
\* generation, contact and friction equations and collide events, each
\* constraint's update followed by its equation, solve, removal of all
\* equations, preStep event, the bodies' preStep callables in body-list
\* order, postStep event, the bodies' postStep callables, world inertias,
\* sleep ticks), and the phases without calls are seen by the callees at
\* their place: gravity before the first call, the collision matrix tick
\* between broadphase and contact generation, damping between the removal
\* of the equations and the preStep event, integration and the advance of
\* time and step number between the preStep callables and the postStep
\* event.
C20_PhaseOrder ==
    [][call'.op = "step"
       => LET l == call'.log
              dynamic(b) == BitAnd(body[b].motionstate, DYNAMIC) # 0
              withGravity(b) ==
                  body[b].force
                    + (IF dynamic(b) THEN body[b].mass * world.gravity ELSE 0)
              damped(b) ==
                  IF dynamic(b)
                  THEN body[b].velocity
                         * DampingFactor(body[b].linearDamping, call'.dt)
                  ELSE body[b].velocity
          IN  \* the calls are made phase by phase
              /\ \A i \in 1..(Len(l) - 1) : PhaseOf(l[i]) <= PhaseOf(l[i + 1])
              \* each phase makes its calls, in list order
              /\ ArgsOf(InPhase(l, 2)) = world.subsystems
              /\ Len(InPhase(l, 3)) = 1
              /\ Len(InPhase(l, 5)) = 1
              /\ ArgsOf(CallsTo(InPhase(l, 6), "addEquation"))
                   = SelectSeq(call'.solved, LAMBDA q : q[1] # "constraint")
              /\ ArgsOf(Dispatched(l, "collide")) = CollideEventsOf(events')
              /\ Len(InPhase(l, 7)) = 2 * Len(world.constraints)
              /\ \A i \in 1..Len(world.constraints) :
                   /\ InPhase(l, 7)[2 * i - 1].callee = "constraint.update"
                   /\ InPhase(l, 7)[2 * i - 1].arg = world.constraints[i]
                   /\ InPhase(l, 7)[2 * i].callee = "addEquation"
                   /\ InPhase(l, 7)[2 * i].arg = <<"constraint", world.constraints[i]>>
              /\ Len(InPhase(l, 8)) = 1
              /\ Len(InPhase(l, 9)) = 1
              /\ Len(InPhase(l, 11)) = 1
              /\ ArgsOf(InPhase(l, 12))
                   = SelectSeq(world.bodies, LAMBDA b : body[b].preStep)
              /\ Len(InPhase(l, 15)) = 1
              /\ ArgsOf(InPhase(l, 16))
                   = SelectSeq(world.bodies, LAMBDA b : body[b].postStep)
              /\ {e[1] : e \in Range(ArgsOf(InPhase(l, 17)))}
                   = {b \in Range(world.bodies) :
                        \/ body[b].inertiaWorldAutoUpdate
                        \/ body[b].invInertiaWorldAutoUpdate}
              /\ ArgsOf(InPhase(l, 18))
                   = IF world.allowSleep
                     THEN [i \in 1..Len(world.bodies) |->
                             <<world.bodies[i], world'.time>>]
                     ELSE <<>>
              \* what the callees find
              /\ \A i \in 1..Len(l), b \in Range(world.bodies) :
                   LET p == PhaseOf(l[i])
                       seen == l[i].seen
                   IN  \* gravity is applied before the first call, and the
                       \* forces are cleared by the integration
                       /\ seen.body[b].force
                            = IF p <= 12 THEN withGravity(b) ELSE 0
                       \* the collision matrix tick
                       /\ seen.world.collisionMatrix
                            = IF p <= 3 THEN world.collisionMatrix
                              ELSE world.collisionMatrixPrevious
                       /\ p = 5 => /\ seen.matrix[seen.world.collisionMatrix].pairs = {}
                                   /\ seen.world.contacts = <<>>
                       \* the equations: all there for solve, none later
                       /\ p = 7 /\ l[i].callee = "constraint.update"
                          => SelectSeq(seen.world.solver,
                                       LAMBDA q : q[1] # "constraint")
                               = SelectSeq(call'.solved,
                                           LAMBDA q : q[1] # "constraint")
                       /\ p \in {8, 9} => seen.world.solver = call'.solved
                       /\ p >= 11 => seen.world.solver = <<>>
                       \* damping
                       /\ seen.body[b].velocity
                            = IF p <= 9 THEN body[b].velocity
                              ELSE IF p <= 12 THEN damped(b)
                              ELSE body'[b].velocity
                       \* integration, time and step number
                       /\ seen.body[b].position
                            = IF p <= 12 THEN body[b].position
                              ELSE body'[b].position
                       /\ seen.world.stepnumber
                            = IF p <= 12 THEN world.stepnumber
                              ELSE world.stepnumber + 1
                       /\ seen.world.time
                            = IF p <= 12 THEN world.time
                              ELSE world.time + call'.dt]_vars

\* a step whose every phase made a call, in which the dynamic body moved
C20_Witness ==
    /\ call.op = "step"
    /\ \A p \in {2, 3, 5, 6, 7, 8, 9, 11, 12, 15, 16, 17, 18} :
          InPhase(call.log, p) # <<>>
    /\ Len(InPhase(call.log, 12)) = 2
    /\ Len(Dispatched(call.log, "collide")) >= 2
    /\ \E e \in Range(InPhase(call.log, 6)) : e.callee = "addEquation"
    /\ \E e \in Range(InPhase(call.log, 11)) :
          /\ e.seen.body[1].position # body[1].position
          /\ e.seen.body[1].velocity # body[1].velocity

(***************************************************************************)
(* A world of two bodies that move and turn, for the phases of the step    *)
(* that act on the bodies: body 1 is dynamic and not damped; body 2 has    *)
(* any motion state and a mass whatever the state (motionstate is a field  *)
(* the caller may set), is a rigid body or a particle, is fully damped and *)
(* may be asleep when the world is handed over.  Between the steps the     *)
(* caller applies forces to the bodies, and the contact generator may      *)
(* report a contact between the two, which wakes them when they penetrate  *)
(* and it is a first touch.  The quaternions are normalized every second   *)
(* step.                                                                   *)
(***************************************************************************)
InitMotion ==
    \E ms \in MotionStates, rot \in BOOLEAN, asleep \in BOOLEAN :
        InitFrom(
           [SetUp(-1, 1,
              <<[NewBody(DYNAMIC, TRUE) EXCEPT
                    !.initVelocity = 1,
                    !.initAngularVelocity = 1],
                [NewBody(ms, rot) EXCEPT
                    !.mass = 1, !.invMass = 1, !.invInertia = 1,
                    !.linearDamping = 1,
                    !.angularDamping = 1,
                    !.initVelocity = 1,
                    !.initAngularVelocity = 1]>>,
              <<>>)
            EXCEPT !.body[2].sleeping = asleep])

NextMotion ==
    \/ \E b \in Body : ApplyForce(b)
    \/ \E cs \in OneContactListsOf(1, 2) : Step(<<>>, cs)

SpecMotion == InitMotion /\ [][NextMotion]_vars

\* the bodies as the first call of the log l to callee finds them
SeenBy(l, callee) == CallsTo(l, callee)[1].seen.body

\* the bodies as the listeners of the event of the log l of this type find
\* them
SeenAt(l, type) == Dispatched(l, type)[1].seen.body

\* the fields of a body that say where it is and how it is turned
Placement(o) == <<o.position, o.angle, o.quatDrift>>

\* the fields of a body that say how it moves
Motion(o) == <<o.velocity, o.angularVelocity>>

\* o is DYNAMIC; o is DYNAMIC or KINEMATIC and awake
IsDynamic(o) == BitAnd(o.motionstate, DYNAMIC) # 0
IsIntegrated(o) ==
    BitAnd(o.motionstate, DYNAMIC + KINEMATIC) # 0 /\ ~o.sleeping

C21_WitnessStatic ==
    /\ call.op = "step"
    /\ world.stepnumber = 2
    /\ body[2].motionstate = STATIC
    /\ body[2].rotational
    /\ Motion(body[2]) = <<1, 1>>
    /\ Placement(body[2]) = <<body[2].initPosition, body[2].initAngle, 0>>
    /\ body[1].quatDrift = 1

\* the first step has woken and moved a kinematic body that was asleep
C21_WitnessWoken ==
    /\ call.op = "step"
    /\ world.stepnumber = 1
    /\ body[2].motionstate = KINEMATIC
    /\ ~body[2].sleeping
    /\ Len(CollideEventsOf(events)) = 2
    /\ body[2].position = body[2].initPosition + body[2].initVelocity * call.dt

=============================================================================
